---- MODULE Spec2Model ----
(***************************************************************************)
(* The Pokemon tables of porydex/db/schema/pokemon.py: the rows the        *)
(* declared constraints accept, and the generation-scoped accessors of     *)
(* PokemonForm (types, all_types, _current_generation_id in its instance   *)
(* form and in its SQL expression form).                                   *)
(***************************************************************************)
EXTENDS Integers, FiniteSets, Sequences, TLC

\* ------------------------------------------------------------------ bounds
\* Generation ids run over 1..MaxGeneration.
MaxGeneration == 3
\* Rows the schema run inserts in total.
MaxLoad == 4
\* generation_pokemon_forms rows the read run loads.
MaxRows == 2

\* Sample ids and values.
PokemonIds == {1, 2}
GameIds == {1, 2}
FormIds == {1, 2}
Sessions == {"s1", "s2"}
\* Ordered type lists (primary type first).
TypeLists == {<<"grass">>, <<"grass", "flying">>}

\* A nullable value is a tuple of at most one element: None (Python's None,
\* SQL's NULL) is the empty one, Some(x) holds x.
None == <<>>
Some(x) == <<x>>
Val(o) == o[1]

VARIABLES
    pokemon,                   \* table pokemon: the ids of its rows
    pokemon_forms,             \* table pokemon_forms
    generation_pokemon,        \* table generation_pokemon
    generation_pokemon_forms,  \* table generation_pokemon_forms, with each row's types
    game_pokemon_forms,        \* table game_pokemon_forms
    generation_id,             \* each session's generation_id attribute
    last                       \* the last accessor evaluated, and its outcome

tables == <<pokemon, pokemon_forms, generation_pokemon,
            generation_pokemon_forms, game_pokemon_forms>>
vars == <<pokemon, pokemon_forms, generation_pokemon,
          generation_pokemon_forms, game_pokemon_forms, generation_id, last>>

\* ------------------------------------------------- tables owned elsewhere
\* generations.id
generations == 1..MaxGeneration

\* games: (id, generation_id); each game belongs to one generation.
games == {[id |-> gm, generation_id |-> ((gm - 1) % MaxGeneration) + 1] : gm \in GameIds}

\* --------------------------------------------------------- foreign keys
\* Mutant: the key references pokemon_forms by its leading column only.
pokemon_form_key_leading_column(row) ==
    \E pf \in pokemon_forms : pf.pokemon_id = row.pokemon_id

\* ForeignKeyConstraint (pokemon_id, form_id) -> pokemon_forms
pokemon_form_key(row) ==
    \E pf \in pokemon_forms :
        /\ pf.pokemon_id = row.pokemon_id
        /\ pf.form_id = row.form_id

\* Mutant: the key references generation_pokemon by pokemon_id only.
generation_pokemon_key_any_generation(row) ==
    \E gp \in generation_pokemon : gp.pokemon_id = row.pokemon_id

\* ForeignKeyConstraint (generation_id, pokemon_id) -> generation_pokemon
generation_pokemon_key(row) ==
    \E gp \in generation_pokemon :
        /\ gp.generation_id = row.generation_id
        /\ gp.pokemon_id = row.pokemon_id

\* ForeignKeyConstraint (generation_id, pokemon_id, form_id) -> generation_pokemon_forms.
\* Its one caller puts it in GamePokemonForm.__tableargs__, so no table carries it.
generation_pokemon_form_key(row) ==
    \E gpf \in generation_pokemon_forms :
        /\ gpf.generation_id = row.generation_id
        /\ gpf.pokemon_id = row.pokemon_id
        /\ gpf.form_id = row.form_id

\* ------------------------------------------------------ row constraints
\* pokemon: id is the primary key.
PokemonAccepts(id) == id \notin pokemon

\* Mutant: is_default is taken into the primary key.
PokemonFormAccepts_no_primary_key(row) ==
    /\ row \notin pokemon_forms
    /\ row.pokemon_id \in pokemon
    /\ row.is_default \in BOOLEAN

\* pokemon_forms: primary key (pokemon_id, form_id); pokemon_id -> pokemon.id;
\* is_default is NOT NULL.  Nothing constrains is_default across rows.
PokemonFormAccepts(row) ==
    /\ \A pf \in pokemon_forms :
           ~(pf.pokemon_id = row.pokemon_id /\ pf.form_id = row.form_id)
    /\ row.pokemon_id \in pokemon
    /\ row.is_default \in BOOLEAN

\* generation_pokemon: primary key (generation_id, pokemon_id);
\* generation_id -> generations.id; pokemon_id -> pokemon.id.
GenerationPokemonAccepts(row) ==
    /\ row \notin generation_pokemon
    /\ row.generation_id \in generations
    /\ row.pokemon_id \in pokemon

\* generation_pokemon_forms: primary key (generation_id, pokemon_id, form_id);
\* generation_id -> generations.id; __table_args__ holds pokemon_form_key()
\* and generation_pokemon_key().
GenerationPokemonFormAccepts(row) ==
    /\ \A gpf \in generation_pokemon_forms :
           ~(/\ gpf.generation_id = row.generation_id
             /\ gpf.pokemon_id = row.pokemon_id
             /\ gpf.form_id = row.form_id)
    /\ row.generation_id \in generations
    /\ pokemon_form_key(row)
    /\ generation_pokemon_key(row)

\* game_pokemon_forms: primary key (game_id, pokemon_id, form_id);
\* game_id -> games.id; generation_id -> generations.id, NOT NULL.
\* The two composite keys are assigned to the class attribute __tableargs__,
\* which the declarative mapper does not read (it reads __table_args__), so
\* the table carries neither of them.
GamePokemonFormAccepts(row) ==
    /\ \A g \in game_pokemon_forms :
           ~(/\ g.game_id = row.game_id
             /\ g.pokemon_id = row.pokemon_id
             /\ g.form_id = row.form_id)
    /\ \E gm \in games : gm.id = row.game_id
    /\ row.generation_id \in generations

\* ---------------------------------------------------------------- inserts
\* last holds the accessor the latest step evaluated and its outcome; a step
\* that writes leaves no outcome behind.
NoRead == [op |-> "none"]

InsertPokemon(id) ==
    /\ PokemonAccepts(id)
    /\ pokemon' = pokemon \cup {id}
    /\ last' = NoRead
    /\ UNCHANGED <<pokemon_forms, generation_pokemon, generation_pokemon_forms,
                   game_pokemon_forms, generation_id>>

InsertPokemonForm(row) ==
    /\ PokemonFormAccepts(row)
    /\ pokemon_forms' = pokemon_forms \cup {row}
    /\ last' = NoRead
    /\ UNCHANGED <<pokemon, generation_pokemon, generation_pokemon_forms,
                   game_pokemon_forms, generation_id>>

InsertGenerationPokemon(row) ==
    /\ GenerationPokemonAccepts(row)
    /\ generation_pokemon' = generation_pokemon \cup {row}
    /\ last' = NoRead
    /\ UNCHANGED <<pokemon, pokemon_forms, generation_pokemon_forms,
                   game_pokemon_forms, generation_id>>

InsertGenerationPokemonForm(row) ==
    /\ GenerationPokemonFormAccepts(row)
    /\ generation_pokemon_forms' = generation_pokemon_forms \cup {row}
    /\ last' = NoRead
    /\ UNCHANGED <<pokemon, pokemon_forms, generation_pokemon,
                   game_pokemon_forms, generation_id>>

InsertGamePokemonForm(row) ==
    /\ GamePokemonFormAccepts(row)
    /\ game_pokemon_forms' = game_pokemon_forms \cup {row}
    /\ last' = NoRead
    /\ UNCHANGED <<pokemon, pokemon_forms, generation_pokemon,
                   generation_pokemon_forms, generation_id>>

\* Rows a loader may offer: any ids of the sample sets, existing or not.
PokemonFormRows ==
    [pokemon_id : PokemonIds, form_id : FormIds, is_default : BOOLEAN]
GenerationPokemonRows ==
    [generation_id : generations, pokemon_id : PokemonIds]
GenerationPokemonFormRows ==
    [generation_id : generations, pokemon_id : PokemonIds, form_id : FormIds,
     types : TypeLists]
GamePokemonFormRows ==
    [game_id : GameIds, pokemon_id : PokemonIds, form_id : FormIds,
     generation_id : generations]

RowCount ==
    Cardinality(pokemon) + Cardinality(pokemon_forms)
    + Cardinality(generation_pokemon) + Cardinality(generation_pokemon_forms)
    + Cardinality(game_pokemon_forms)

Init ==
    /\ pokemon = {}
    /\ pokemon_forms = {}
    /\ generation_pokemon = {}
    /\ generation_pokemon_forms = {}
    /\ game_pokemon_forms = {}
    /\ generation_id = [s \in Sessions |-> None]
    /\ last = NoRead

LoadPokemon == RowCount < MaxLoad /\ \E id \in PokemonIds : InsertPokemon(id)
LoadPokemonForm ==
    RowCount < MaxLoad /\ \E row \in PokemonFormRows : InsertPokemonForm(row)
LoadGenerationPokemon ==
    RowCount < MaxLoad /\ \E row \in GenerationPokemonRows : InsertGenerationPokemon(row)
LoadGenerationPokemonForm ==
    RowCount < MaxLoad
    /\ \E row \in GenerationPokemonFormRows : InsertGenerationPokemonForm(row)
LoadGamePokemonForm ==
    RowCount < MaxLoad /\ \E row \in GamePokemonFormRows : InsertGamePokemonForm(row)

Next ==
    \/ LoadPokemon
    \/ LoadPokemonForm
    \/ LoadGenerationPokemon
    \/ LoadGenerationPokemonForm
    \/ LoadGamePokemonForm

Spec == Init /\ [][Next]_vars

\* ------------------------------------------------------------ accessors
\* A form is a pokemon_forms row; the accessors below are evaluated on a form
\* loaded in session s.

\* The generation_pokemon_forms rows of a form.
FormRows(form) ==
    {r \in generation_pokemon_forms :
        r.pokemon_id = form.pokemon_id /\ r.form_id = form.form_id}

Max(S) == CHOOSE m \in S : \A x \in S : x <= m

\* ExistsByGeneration._by_generation: the form's rows keyed by generation id.
_by_generation(form) ==
    [g \in {r.generation_id : r \in FormRows(form)} |->
        CHOOSE r \in FormRows(form) : r.generation_id = g]

\* Mutant: the generation id is read off one process-wide session.
_current_generation_id_global(s, form) ==
    LET session_generation_id == generation_id[CHOOSE t \in Sessions : TRUE]
        keys == DOMAIN _by_generation(form)
    IN  IF session_generation_id # None
        THEN [ok |-> TRUE, value |-> session_generation_id]
        ELSE IF keys = {}
             THEN [ok |-> FALSE, value |-> None]
             ELSE [ok |-> TRUE, value |-> Some(Max(keys))]

\* PokemonForm._current_generation_id on an instance.  The outcome is a value
\* (ok), or the ValueError that max() raises on an empty sequence (not ok).
_current_generation_id(s, form) ==
    LET session_generation_id == generation_id[s]
        keys == DOMAIN _by_generation(form)
    IN  IF session_generation_id # None
        THEN [ok |-> TRUE, value |-> session_generation_id]
        ELSE IF keys = {}
             THEN [ok |-> FALSE, value |-> None]
             ELSE [ok |-> TRUE, value |-> Some(Max(keys))]

\* bindparam('session_generation_id'): bound to the generation id of the
\* session that runs the query.
session_gen(s) == generation_id[s]

\* Mutant: the earliest generation instead of the latest.
latest_gen_min(form) ==
    IF FormRows(form) = {}
    THEN None
    ELSE Some(CHOOSE m \in {r.generation_id : r \in FormRows(form)} :
                  \A r \in FormRows(form) : m <= r.generation_id)

\* SELECT max(generation_id) FROM generation_pokemon_forms WHERE pokemon_id =
\* and form_id = : NULL when the form has no row.
latest_gen(form) ==
    IF FormRows(form) = {}
    THEN None
    ELSE Some(Max({r.generation_id : r \in FormRows(form)}))

\* SQL coalesce: the first argument that is not NULL.
coalesce(a, b) == IF a # None THEN a ELSE b

\* PokemonForm._current_generation_id as an SQL expression.
_current_generation_id_expression(s, form) ==
    coalesce(session_gen(s), latest_gen(form))

\* PokemonForm._current_gpf: the row the primaryjoin selects (uselist=False),
\* None when it selects none.  A comparison with NULL selects nothing.
_current_gpf(s, form) ==
    LET current == _current_generation_id_expression(s, form)
        joined == {r \in generation_pokemon_forms :
                      /\ form.pokemon_id = r.pokemon_id
                      /\ form.form_id = r.form_id
                      /\ current # None
                      /\ Val(current) = r.generation_id}
    IN  IF joined = {} THEN None ELSE Some(CHOOSE r \in joined : TRUE)

\* association_proxy('_current_gpf', 'types'): the scalar target's types, None
\* when the target is None.
types(s, form) ==
    LET target == _current_gpf(s, form)
    IN  IF target = None THEN None ELSE Some(Val(target).types)

\* Mutant: the mapping is cut down to the current generation.
all_types_current(s, form) ==
    LET current == _current_generation_id_expression(s, form)
        keys == {g \in DOMAIN _by_generation(form) : current = Some(g)}
    IN  [g \in keys |-> _by_generation(form)[g].types]

\* association_proxy('_by_generation', 'types'): generation id -> types.
all_types(s, form) ==
    [g \in DOMAIN _by_generation(form) |-> _by_generation(form)[g].types]

\* ------------------------------------------------------------- sessions
\* Values a caller may give a session's generation_id: None, a generation, or
\* 0, which is no generation.
AmbientValues == {None} \cup {Some(g) : g \in 0..MaxGeneration}

SetGenerationId(s, g) ==
    /\ generation_id' = [generation_id EXCEPT ![s] = g]
    /\ last' = NoRead
    /\ UNCHANGED tables

\* An accessor evaluated on a form in session s, and its outcome.
Read(op, s, form, outcome) ==
    /\ form \in pokemon_forms
    /\ last' = [op |-> op, session |-> s, form |-> form, ok |-> outcome.ok,
                value |-> outcome.value]
    /\ UNCHANGED <<tables, generation_id>>

GetTypes(s, form) ==
    Read("types", s, form, [ok |-> TRUE, value |-> types(s, form)])

GetAllTypes(s, form) ==
    Read("all_types", s, form, [ok |-> TRUE, value |-> all_types(s, form)])

GetCurrentGenerationId(s, form) ==
    Read("_current_generation_id", s, form, _current_generation_id(s, form))

QueryCurrentGenerationId(s, form) ==
    Read("_current_generation_id.expression", s, form,
         [ok |-> TRUE, value |-> _current_generation_id_expression(s, form)])

\* The read run starts from the loaded species: one species, its forms (the
\* first the default), present in every generation; it then loads form rows
\* and reads.
ReadInit ==
    /\ pokemon = {1}
    /\ pokemon_forms =
           {[pokemon_id |-> 1, form_id |-> f, is_default |-> (f = 1)] : f \in FormIds}
    /\ generation_pokemon =
           {[generation_id |-> g, pokemon_id |-> 1] : g \in generations}
    /\ generation_pokemon_forms = {}
    /\ game_pokemon_forms = {}
    /\ generation_id = [s \in Sessions |-> None]
    /\ last = NoRead

LoadFormRow ==
    /\ Cardinality(generation_pokemon_forms) < MaxRows
    /\ \E row \in GenerationPokemonFormRows : InsertGenerationPokemonForm(row)
SetGeneration == \E s \in Sessions, g \in AmbientValues : SetGenerationId(s, g)
ReadTypes == \E s \in Sessions, form \in pokemon_forms : GetTypes(s, form)
ReadAllTypes == \E s \in Sessions, form \in pokemon_forms : GetAllTypes(s, form)
ReadCurrentGenerationId ==
    \E s \in Sessions, form \in pokemon_forms : GetCurrentGenerationId(s, form)
RunCurrentGenerationIdQuery ==
    \E s \in Sessions, form \in pokemon_forms : QueryCurrentGenerationId(s, form)

ReadNext ==
    \/ LoadFormRow
    \/ SetGeneration
    \/ ReadTypes
    \/ ReadAllTypes
    \/ ReadCurrentGenerationId
    \/ RunCurrentGenerationIdQuery

ReadSpec == ReadInit /\ [][ReadNext]_vars

\* ---------------------------------------------------------------- claims
\* The generations a form has a row in, and the types of its row in one.
GenerationsOf(form) == {r.generation_id : r \in FormRows(form)}
TypesIn(form, g) == (CHOOSE r \in FormRows(form) : r.generation_id = g).types
\* The generation id of the session that made the latest read.
Ambient == generation_id[last.session]

\* C1: types read in a session is the type list of the form's row of the
\* greatest generation when the session's generation id is unset, the type
\* list of the row of generation g when it is set to g and that row exists,
\* and absent when it is set to g and the form has no row in g.
C1_TypesResolve ==
    last.op = "types" =>
        LET gens == GenerationsOf(last.form)
        IN  /\ last.ok
            /\ (Ambient = None /\ gens # {}) =>
                   last.value = Some(TypesIn(last.form, Max(gens)))
            /\ (Ambient # None /\ Val(Ambient) \in gens) =>
                   last.value = Some(TypesIn(last.form, Val(Ambient)))
            /\ (Ambient # None /\ Val(Ambient) \notin gens) =>
                   last.value = None

\* C1 witness: a form with rows in generations 1 and 3 only was read in a
\* session set to generation 2, and the read gave no type list.
C1_Witness ==
    /\ last.op = "types"
    /\ Ambient = Some(2)
    /\ GenerationsOf(last.form) = {1, 3}
    /\ last.value = None

\* C2: no evaluation of a form's current generation or types ends in an
\* error, whatever the form's rows and the session's generation id.
C2_NeverAnError == last.op # "none" => last.ok

\* C3: every game_pokemon_forms row carries the generation_id of the games
\* row its game_id references.
C3_GameGenerationMatches ==
    \A row \in game_pokemon_forms :
        \E gm \in games :
            gm.id = row.game_id /\ gm.generation_id = row.generation_id

\* C4: every generation_pokemon_forms row references an existing
\* pokemon_forms row by (pokemon_id, form_id).
C4_FormRowHasForm ==
    \A row \in generation_pokemon_forms :
        \E pf \in pokemon_forms :
            pf.pokemon_id = row.pokemon_id /\ pf.form_id = row.form_id

\* C4 witness: a form row was accepted for a species that has another form
\* id free, so a key on pokemon_id alone would have let that one in too.
C4_Witness ==
    \E row \in generation_pokemon_forms :
        \E f \in FormIds :
            \A pf \in pokemon_forms :
                ~(pf.pokemon_id = row.pokemon_id /\ pf.form_id = f)

\* C5: _current_generation_id evaluated on an instance gives the value its
\* SQL expression gives for the same form and session, a form without rows
\* in a session without generation id included.
C5_InstanceEqualsExpression ==
    last.op = "_current_generation_id" =>
        /\ last.ok
        /\ last.value = _current_generation_id_expression(last.session, last.form)

\* C6: every game_pokemon_forms row references an existing pokemon_forms row
\* by (pokemon_id, form_id).
C6_GameRowHasForm ==
    \A row \in game_pokemon_forms :
        \E pf \in pokemon_forms :
            pf.pokemon_id = row.pokemon_id /\ pf.form_id = row.form_id

\* What a session alone, holding generation id g, reads of a form: its types
\* and, where the form has a row or g is set, its current generation id.
TypesAlone(g, form) ==
    LET gens == GenerationsOf(form)
        current == IF g # None THEN g
                   ELSE IF gens = {} THEN None ELSE Some(Max(gens))
    IN  IF current # None /\ Val(current) \in gens
        THEN Some(TypesIn(form, Val(current)))
        ELSE None
CurrentAlone(g, form) ==
    IF g # None THEN g ELSE Some(Max(GenerationsOf(form)))

\* C7: with the sessions holding any generation ids, each session reads of
\* every form what it would read alone with its own generation id: the
\* other sessions' generation ids have no part in its types nor in its
\* current generation id.
C7_SessionsIsolated ==
    \A s \in Sessions, form \in pokemon_forms :
        /\ types(s, form) = TypesAlone(generation_id[s], form)
        /\ (generation_id[s] # None \/ GenerationsOf(form) # {}) =>
              /\ _current_generation_id(s, form).ok
              /\ _current_generation_id(s, form).value =
                    CurrentAlone(generation_id[s], form)

\* C7 witness: two sessions hold different generation ids and the form just
\* read in one has other types in the other.
C7_Witness ==
    /\ last.op = "types"
    /\ \E t \in Sessions :
          /\ generation_id[t] # Ambient
          /\ types(t, last.form) # None
          /\ last.value # None
          /\ types(t, last.form) # last.value

\* C8: all_types is the mapping from exactly the generations the form has a
\* row in to that row's type list, whatever the session's generation id.
C8_AllTypesWhole ==
    last.op = "all_types" =>
        /\ last.ok
        /\ DOMAIN last.value = GenerationsOf(last.form)
        /\ \A g \in GenerationsOf(last.form) : last.value[g] = TypesIn(last.form, g)

\* C8 witness: all_types was read in a session set to one generation and
\* holds two generations.
C8_Witness ==
    /\ last.op = "all_types"
    /\ Ambient # None
    /\ Cardinality(DOMAIN last.value) = 2

\* C9 as stated: every pokemon_id with a form row has exactly one row with
\* is_default true.
C9_ExactlyOneDefault ==
    \A pf \in pokemon_forms :
        Cardinality({d \in pokemon_forms :
                        d.pokemon_id = pf.pokemon_id /\ d.is_default}) = 1

\* C9 amended: every (pokemon_id, form_id) has one row, hence one is_default
\* value, and it is a boolean; the number of default rows of a pokemon_id is
\* not constrained.
C9_OneFlagPerForm ==
    \A pf \in pokemon_forms :
        /\ pf.is_default \in BOOLEAN
        /\ \A d \in pokemon_forms :
              (d.pokemon_id = pf.pokemon_id /\ d.form_id = pf.form_id) => d = pf

\* C9 witness: a species whose two forms are both default.
C9_Witness ==
    \E pf \in pokemon_forms, d \in pokemon_forms :
        /\ pf.pokemon_id = d.pokemon_id
        /\ pf.form_id # d.form_id
        /\ pf.is_default
        /\ d.is_default

\* C10: every generation_pokemon_forms row has a generation_pokemon row of
\* its generation_id and pokemon_id.
C10_FormRowHasSpeciesRow ==
    \A row \in generation_pokemon_forms :
        \E gp \in generation_pokemon :
            gp.generation_id = row.generation_id /\ gp.pokemon_id = row.pokemon_id

\* C10 witness: a form row was accepted while its species is recorded in one
\* generation only.
C10_Witness ==
    \E row \in generation_pokemon_forms :
        Cardinality({gp \in generation_pokemon : gp.pokemon_id = row.pokemon_id}) = 1

====
